---- MODULE Spec2Model ----
(***************************************************************************)
(* Change-risk service: src/app.py (request handler, output extractor,     *)
(* assessment assembler) and src/agent.py (data model, lookup tools,       *)
(* agent executor).                                                        *)
(*                                                                         *)
(* A text is a sequence of one-character strings.  Three specifications:   *)
(*   SpecExtract  extract_risk_score applied to lower-cased texts          *)
(*   SpecParse    parse_gemini_output applied to (text, ChangeRequest)     *)
(*   Spec         the service: concurrent analyze_change_risk requests     *)
(***************************************************************************)
EXTENDS Integers, Sequences, FiniteSets, TLC

VARIABLES
    arg_output,   \* pure call: the `output` argument (a text)
    arg_change,   \* pure call: the `change` argument (a ChangeRequest)
    call,         \* pure call: "extract" | "parse" | "returned" | "raised" | "none"
    ret,          \* pure call: the value returned or the exception raised
    change,       \* service: per request, the ChangeRequest received
    pc,           \* service: per request, where the handler / agent loop is
    messages,     \* service: per request, the agent's message history
    rounds,       \* service: per request, tool rounds the backend has requested
    exc,          \* service: per request, the exception caught by the handler's try
    response      \* service: per request, the HTTP response sent

vars == <<arg_output, arg_change, call, ret, change, pc, messages, rounds, exc, response>>
pureVars == <<arg_output, arg_change, call, ret>>
serviceVars == <<change, pc, messages, rounds, exc, response>>

None == [kind |-> "None"]

\* a str value (kept apart from None, which a regex group may also be)
Str(cs) == [kind |-> "str", chars |-> cs]

(***************************************************************************)
(* Bounds of the model.                                                    *)
(***************************************************************************)
MaxFrags == 4     \* fragments concatenated into a text of SpecExtract
MaxScore == 130   \* largest number written in a text of SpecParse
MaxTeams == 4     \* largest teams_involved of a ChangeRequest of SpecParse
MaxRounds == 1    \* tool rounds the backend may request in Spec

(***************************************************************************)
(* Characters and texts.                                                   *)
(***************************************************************************)
Digits == <<"0", "1", "2", "3", "4", "5", "6", "7", "8", "9">>

IsDigit(c) == \E d \in 1..10 : Digits[d] = c

DigitVal(c) == (CHOOSE d \in 1..10 : Digits[d] = c) - 1

IsSpace(c) == c \in {" ", "\t", "\n"}

\* str.lower() on one character
LowerChar(c) ==
    CASE c = "S" -> "s" [] c = "C" -> "c" [] c = "O" -> "o" [] c = "R" -> "r"
      [] c = "E" -> "e" [] c = "T" -> "t" [] c = "X" -> "x" [] OTHER -> c

\* output.lower()
lower(s) == [i \in 1..Len(s) |-> LowerChar(s[i])]

\* whether the literal lit stands in s at position i
LitAt(s, i, lit) ==
    /\ i >= 1
    /\ i + Len(lit) - 1 <= Len(s)
    /\ \A k \in 1..Len(lit) : s[i + k - 1] = lit[k]

RECURSIVE DigitRunLen(_, _)
\* how many characters \d+ consumes greedily from position i
DigitRunLen(s, i) ==
    IF i <= Len(s) /\ IsDigit(s[i]) THEN 1 + DigitRunLen(s, i + 1) ELSE 0

RECURSIVE SpaceRunLen(_, _)
\* how many characters \s* consumes greedily from position i
SpaceRunLen(s, i) ==
    IF i <= Len(s) /\ IsSpace(s[i]) THEN 1 + SpaceRunLen(s, i + 1) ELSE 0

SetMax(S) == CHOOSE x \in S : \A y \in S : y <= x

RECURSIVE int(_)
\* int(str) of a non-empty run of decimal digits
int(ds) ==
    IF Len(ds) = 0 THEN 0
    ELSE 10 * int(SubSeq(ds, 1, Len(ds) - 1)) + DigitVal(ds[Len(ds)])

(***************************************************************************)
(* re.search(r'(\d+)/100|score:\s*(\d+)', output)                          *)
(***************************************************************************)
Slash100 == <<"/", "1", "0", "0">>
ScoreColon == <<"s", "c", "o", "r", "e", ":">>

\* first alternative tried at position i: (\d+)/100, greedy with backtracking
MatchSlash100(s, i) ==
    LET n == DigitRunLen(s, i)
        ks == {k \in 1..n : LitAt(s, i + k, Slash100)}
    IN  IF ks = {} THEN None
        ELSE [kind |-> "Match", start |-> i,
              group1 |-> Str(SubSeq(s, i, i + SetMax(ks) - 1)), group2 |-> None]

\* second alternative tried at position i: score:\s*(\d+)
MatchScoreColon(s, i) ==
    LET from == i + Len(ScoreColon)
        w == SpaceRunLen(s, from)
        ws == {v \in 0..w : DigitRunLen(s, from + v) >= 1}
    IN  IF ~LitAt(s, i, ScoreColon) \/ ws = {} THEN None
        ELSE LET v == SetMax(ws)
                 n == DigitRunLen(s, from + v)
             IN  [kind |-> "Match", start |-> i, group1 |-> None,
                  group2 |-> Str(SubSeq(s, from + v, from + v + n - 1))]

\* the pattern tried at one position: alternatives in order
MatchAt(s, i) ==
    IF MatchSlash100(s, i) # None THEN MatchSlash100(s, i) ELSE MatchScoreColon(s, i)

RECURSIVE SearchFrom(_, _)
SearchFrom(s, i) ==
    IF i > Len(s) THEN None
    ELSE IF MatchAt(s, i) # None THEN MatchAt(s, i)
    ELSE SearchFrom(s, i + 1)

RECURSIVE FirstSlash100(_, _)
FirstSlash100(s, i) ==
    IF i > Len(s) THEN None
    ELSE IF MatchSlash100(s, i) # None THEN MatchSlash100(s, i)
    ELSE FirstSlash100(s, i + 1)

re_search_AlternativeFirst(s) ==
    IF FirstSlash100(s, 1) # None THEN FirstSlash100(s, 1) ELSE SearchFrom(s, 1)

\* re.search: the match at the leftmost position where the pattern matches
re_search(s) == SearchFrom(s, 1)

\* src/app.py extract_risk_score
extract_risk_score(output) ==
    LET score_match == re_search(output)
    IN  IF score_match # None
        THEN int((IF score_match.group1 # None THEN score_match.group1
                  ELSE score_match.group2).chars)
        ELSE 50

(***************************************************************************)
(* Data model: src/agent.py                                                *)
(***************************************************************************)
LOW == "low"
MODERATE == "moderate"
HIGH == "high"
CRITICAL == "critical"

RiskLevel == {LOW, MODERATE, HIGH, CRITICAL}

\* class ChangeRequest(BaseModel): the fields and their types
ChangeRequest(ids, teams) ==
    [ change_id : ids,
      description : {"Upgrade database"},
      affected_systems : {<<"db", "api">>},
      implementation_date : {"2025-01-15"},
      teams_involved : teams,
      has_rollback_plan : BOOLEAN,
      testing_completed : BOOLEAN,
      service_outage_required : BOOLEAN,
      outage_duration_minutes : {30} ]

RiskAssessment_NoValidation(fields) == [kind |-> "RiskAssessment", value |-> fields]

\* class RiskAssessment(BaseModel): construction validates the fields and
\* raises a ValidationError when risk_score breaks Field(ge=0, le=100)
RiskAssessment(fields) ==
    IF /\ fields.risk_level \in RiskLevel
       /\ fields.risk_score >= 0
       /\ fields.risk_score <= 100
       /\ fields.approval_required \in BOOLEAN
    THEN [kind |-> "RiskAssessment", value |-> fields]
    ELSE [kind |-> "raise", exc |-> "ValidationError"]

(***************************************************************************)
(* Assessment assembly: src/app.py parse_gemini_output                     *)
(***************************************************************************)
risk_level_of_ClosedBands(risk_score) ==
    IF risk_score <= 25 THEN LOW
    ELSE IF risk_score <= 50 THEN MODERATE
    ELSE IF risk_score <= 75 THEN HIGH
    ELSE CRITICAL

\* "Determine risk level": the if / elif chain
risk_level_of(risk_score) ==
    IF risk_score < 25 THEN LOW
    ELSE IF risk_score < 50 THEN MODERATE
    ELSE IF risk_score < 75 THEN HIGH
    ELSE CRITICAL

approval_required_AtLeast(risk_score) == risk_score >= 50

\* approval_required=risk_score > 50
approval_required(risk_score) == risk_score > 50

risk_factors(c) ==
    [ complexity |-> IF c.teams_involved > 2 THEN "moderate" ELSE "low",
      testing_coverage |-> IF c.testing_completed THEN "adequate" ELSE "insufficient",
      historical_pattern |-> "favorable",
      service_impact |-> IF c.service_outage_required THEN "high" ELSE "low" ]

RecTesting == "Complete comprehensive testing before implementation"
RecRollback == "Develop and validate rollback procedure"
RecOffPeak == "Schedule during off-peak hours (2-6 AM IST)"
RecCoordination == "Conduct pre-implementation coordination meeting"
RecMonitor == "Monitor key metrics for 24 hours post-deployment"

extract_recommendations_TeamsOverTwo(output, c) ==
    (IF ~c.testing_completed THEN <<RecTesting>> ELSE <<>>)
    \o (IF ~c.has_rollback_plan THEN <<RecRollback>> ELSE <<>>)
    \o (IF c.service_outage_required THEN <<RecOffPeak>> ELSE <<>>)
    \o (IF c.teams_involved > 2 THEN <<RecCoordination>> ELSE <<>>)
    \o <<RecMonitor>>

\* src/app.py extract_recommendations: four conditional appends, then the
\* unconditional one; `output` is a parameter the body never reads
extract_recommendations(output, c) ==
    LET r0 == <<>>
        r1 == IF ~c.testing_completed THEN Append(r0, RecTesting) ELSE r0
        r2 == IF ~c.has_rollback_plan THEN Append(r1, RecRollback) ELSE r1
        r3 == IF c.service_outage_required THEN Append(r2, RecOffPeak) ELSE r2
        r4 == IF c.teams_involved > 3 THEN Append(r3, RecCoordination) ELSE r3
    IN  Append(r4, RecMonitor)

\* src/app.py parse_gemini_output
parse_gemini_output(output, c) ==
    LET output_lower == lower(output)
        risk_score == extract_risk_score(output_lower)
    IN  RiskAssessment(
            [ change_id |-> c.change_id,
              risk_level |-> risk_level_of(risk_score),
              risk_score |-> risk_score,
              risk_factors |-> risk_factors(c),
              recommendations |-> extract_recommendations(output_lower, c),
              approval_required |-> approval_required(risk_score) ])

\* RISK LEVELS of SYSTEM_PROMPT (src/app.py) and system_prompt (src/agent.py):
\* the closed score ranges the text gives the model
SYSTEM_PROMPT_RISK_LEVELS ==
    << [level |-> LOW, lo |-> 0, hi |-> 25],
       [level |-> MODERATE, lo |-> 26, hi |-> 50],
       [level |-> HIGH, lo |-> 51, hi |-> 75],
       [level |-> CRITICAL, lo |-> 76, hi |-> 100] >>

(***************************************************************************)
(* Texts of SpecExtract: concatenations of at most MaxFrags fragments.     *)
(***************************************************************************)
Fragments ==
    { <<"8">>, <<"0">>, Slash100, <<"/", "1">>, <<"5">> \o Slash100,
      <<"S", "c", "o", "r", "e", ":">>, <<" ">>, <<"x">> }

RECURSIVE Concats(_)
Concats(n) ==
    IF n = 0 THEN {<<>>}
    ELSE Concats(n - 1) \cup {t \o f : t \in Concats(n - 1), f \in Fragments}

FragTexts == Concats(MaxFrags)

(***************************************************************************)
(* SpecExtract: lines 88-91 of parse_gemini_output on a drawn text.        *)
(***************************************************************************)
ServiceIdle ==
    /\ change = <<>>
    /\ pc = <<>>
    /\ messages = <<>>
    /\ rounds = <<>>
    /\ exc = <<>>
    /\ response = <<>>

InitExtract ==
    /\ arg_output \in FragTexts
    /\ arg_change = None
    /\ call = "extract"
    /\ ret = None
    /\ ServiceIdle

ExtractCall ==
    /\ call = "extract"
    /\ ret' = [kind |-> "int", value |-> extract_risk_score(lower(arg_output))]
    /\ call' = "returned"
    /\ UNCHANGED <<arg_output, arg_change, serviceVars>>

NextExtract == ExtractCall

SpecExtract == InitExtract /\ [][NextExtract]_vars

(***************************************************************************)
(* What the patterns' occurrences in a text are, stated without scanning:  *)
(* [start, lo, hi] is an occurrence beginning at start whose digit run is  *)
(* s[lo..hi].                                                              *)
(***************************************************************************)
AllDigits(s, lo, hi) == \A p \in lo..hi : IsDigit(s[p])

AllSpaces(s, lo, hi) == \A p \in lo..hi : IsSpace(s[p])

Slash100Occurrences(s) ==
    { [start |-> p[1], lo |-> p[1], hi |-> p[2]] :
        p \in { q \in (1..Len(s)) \X {j \in 1..Len(s) : LitAt(s, j + 1, Slash100)} :
                  /\ q[1] <= q[2]
                  /\ AllDigits(s, q[1], q[2]) } }

ScoreColonOccurrences(s) ==
    { [start |-> p[1], lo |-> p[2], hi |-> p[3]] :
        p \in { q \in {i \in 1..Len(s) : LitAt(s, i, ScoreColon)}
                        \X {l \in 1..Len(s) : IsDigit(s[l])}
                        \X {h \in 1..Len(s) : h = Len(s) \/ ~IsDigit(s[h + 1])} :
                  /\ q[2] >= q[1] + Len(ScoreColon) /\ q[2] <= q[3]
                  /\ AllSpaces(s, q[1] + Len(ScoreColon), q[2] - 1)
                  /\ AllDigits(s, q[2], q[3]) } }

Occurrences(s) == Slash100Occurrences(s) \cup ScoreColonOccurrences(s)

Leftmost(occs) == CHOOSE o \in occs : \A q \in occs : o.start <= q.start

RECURSIVE Pow10(_)
Pow10(n) == IF n = 0 THEN 1 ELSE 10 * Pow10(n - 1)

RECURSIVE DecimalValue(_, _, _)
\* the number the digits s[lo..hi] write, most significant first
DecimalValue(s, lo, hi) ==
    IF lo > hi THEN 0
    ELSE DigitVal(s[lo]) * Pow10(hi - lo) + DecimalValue(s, lo + 1, hi)

\* C4: extract_risk_score of the lower-cased answer is the number written by
\* the digit run of the leftmost occurrence of '<digits>/100' or
\* 'score:' <whitespace> '<digits>', whichever pattern that occurrence is of,
\* and 50 when neither pattern occurs.
C4_LeftmostOccurrenceWins ==
    (call = "returned" /\ ret.kind = "int") =>
        LET s == lower(arg_output)
            occs == Occurrences(s)
        IN  IF occs = {} THEN ret.value = 50
            ELSE ret.value = DecimalValue(s, Leftmost(occs).lo, Leftmost(occs).hi)

\* C4 witness: both patterns occur, the 'score:' one first, and the score
\* returned is its number, not the later '<digits>/100' one.
C4_Witness ==
    /\ call = "returned" /\ ret.kind = "int"
    /\ LET s == lower(arg_output)
       IN  /\ Slash100Occurrences(s) # {}
           /\ ScoreColonOccurrences(s) # {}
           /\ Leftmost(Occurrences(s)) \in ScoreColonOccurrences(s)
           /\ ret.value = 8
           /\ \E o \in Slash100Occurrences(s) : DecimalValue(s, o.lo, o.hi) = 5

(***************************************************************************)
(* Texts and requests of SpecParse.                                        *)
(***************************************************************************)
RECURSIVE DecimalString(_)
\* the decimal digits of n
DecimalString(n) ==
    IF n < 10 THEN <<Digits[n + 1]>>
    ELSE DecimalString(n \div 10) \o <<Digits[(n % 10) + 1]>>

TotalScore == <<"T", "o", "t", "a", "l", " ", "S", "c", "o", "r", "e", ":", " ">>
RiskIs == <<"r", "i", "s", "k", " ">>

ScoreTexts ==
    {RiskIs \o DecimalString(n) \o Slash100 : n \in 0..MaxScore}
    \cup {TotalScore \o DecimalString(n) \o Slash100 : n \in 0..MaxScore}
    \cup {<<"S", "C", "O", "R", "E", ":", "\n">> \o DecimalString(n) : n \in 0..MaxScore}
    \cup {<<>>, RiskIs, RiskIs \o <<"8", "/", "1", "0">>}

ParseRequests == ChangeRequest({"CHG-001"}, 0..MaxTeams)

InitParse ==
    /\ arg_output \in ScoreTexts
    /\ arg_change \in ParseRequests
    /\ call \in {"parse", "recommend"}
    /\ ret = None
    /\ ServiceIdle

\* parse_gemini_output(output, change): returns the assessment or raises
ParseCall ==
    /\ call = "parse"
    /\ LET r == parse_gemini_output(arg_output, arg_change)
       IN  /\ ret' = r
           /\ call' = IF r.kind = "raise" THEN "raised" ELSE "returned"
    /\ UNCHANGED <<arg_output, arg_change, serviceVars>>

\* extract_recommendations(output_lower, change)
RecommendCall ==
    /\ call = "recommend"
    /\ ret' = [kind |-> "list",
               value |-> extract_recommendations(lower(arg_output), arg_change)]
    /\ call' = "returned"
    /\ UNCHANGED <<arg_output, arg_change, serviceVars>>

NextParse == ParseCall \/ RecommendCall

SpecParse == InitParse /\ [][NextParse]_vars

Returned == call = "returned" /\ ret.kind = "RiskAssessment"

\* the score a text states: the number of its leftmost occurrence, else 50
ScoreWritten(text) ==
    LET s == lower(text)
        occs == Occurrences(s)
    IN  IF occs = {} THEN 50
        ELSE DecimalValue(s, Leftmost(occs).lo, Leftmost(occs).hi)

\* the score the extractor reads from the call's text
ExtractedScore == ScoreWritten(arg_output)

\* C1 as stated: every call of parse_gemini_output returns a RiskAssessment,
\* whose risk_score lies in 0..100.
C1_AlwaysReturnsInRange ==
    call \in {"returned", "raised"} /\ ret.kind # "list" =>
        /\ ret.kind = "RiskAssessment"
        /\ ret.value.risk_score \in 0..100

\* C1 amended: parse_gemini_output returns a RiskAssessment exactly when the
\* score read from the text is at most 100, and then risk_score is that score
\* and lies in 0..100; when the score read exceeds 100 it raises the
\* validation error and returns nothing.
C1_ReturnsInRangeOrRaises ==
    call \in {"returned", "raised"} /\ ret.kind # "list" =>
        /\ (ret.kind = "RiskAssessment") = (ExtractedScore <= 100)
        /\ ret.kind = "RiskAssessment" =>
              ret.value.risk_score = ExtractedScore /\ ret.value.risk_score \in 0..100
        /\ ret.kind # "RiskAssessment" =>
              call = "raised" /\ ret = [kind |-> "raise", exc |-> "ValidationError"]

\* C1 witness: a call that returned an assessment at the top of the range.
C1_Witness == Returned /\ ret.value.risk_score = 100

\* C2: in every RiskAssessment returned, approval_required is true exactly
\* when risk_score > 50.
C2_ApprovalIffAbove50 ==
    Returned => (ret.value.approval_required = TRUE) = (ret.value.risk_score \in 51..100)

\* C2 witness: a returned assessment with score exactly 50 and no approval.
C2_Witness ==
    Returned /\ ret.value.risk_score = 50 /\ ret.value.approval_required = FALSE

\* C3: risk_level is decided by risk_score alone with half-open bands:
\* below 25 LOW, 25 to 49 MODERATE, 50 to 74 HIGH, 75 and above CRITICAL.
C3_HalfOpenBands ==
    Returned =>
        LET n == ret.value.risk_score
            l == ret.value.risk_level
        IN  /\ n \in 0..24 => l = LOW
            /\ n \in 25..49 => l = MODERATE
            /\ n \in 50..74 => l = HIGH
            /\ n \in 75..100 => l = CRITICAL
            /\ n \in 0..100

\* C3 witness: a returned assessment at the boundary 75, which is CRITICAL.
C3_Witness == Returned /\ ret.value.risk_score = 75 /\ ret.value.risk_level = CRITICAL

RecommendationOrder ==
    <<RecTesting, RecRollback, RecOffPeak, RecCoordination, RecMonitor>>

Applies(rec, c) ==
    \/ rec = RecTesting /\ c.testing_completed = FALSE
    \/ rec = RecRollback /\ c.has_rollback_plan = FALSE
    \/ rec = RecOffPeak /\ c.service_outage_required = TRUE
    \/ rec = RecCoordination /\ c.teams_involved >= 4
    \/ rec = RecMonitor

\* C5: the recommendations are the subsequence of the fixed list selected by
\* the four conditions of the ChangeRequest, monitoring always present and
\* last; between 1 and 5 items; the text plays no part.  The assessment
\* returned by parse_gemini_output carries the same list.
C5_RecommendationsAreSelectedSubsequence ==
    LET KeepRec(rec) == Applies(rec, arg_change)
        expected == SelectSeq(RecommendationOrder, KeepRec)
    IN  /\ call = "returned" /\ ret.kind = "list" =>
              /\ ret.value = expected
              /\ Len(ret.value) \in 1..5
              /\ ret.value[Len(ret.value)] = RecMonitor
        /\ Returned => ret.value.recommendations = expected

\* C5 witness: all four conditions hold and the five items come in order.
C5_Witness ==
    /\ call = "returned" /\ ret.kind = "list"
    /\ ~arg_change.testing_completed /\ ~arg_change.has_rollback_plan
    /\ arg_change.service_outage_required /\ arg_change.teams_involved = 4
    /\ ret.value = RecommendationOrder

\* the level the system instruction's text gives a score
PromptLevels(n) ==
    {SYSTEM_PROMPT_RISK_LEVELS[k].level : k \in
        {j \in 1..Len(SYSTEM_PROMPT_RISK_LEVELS) :
            /\ SYSTEM_PROMPT_RISK_LEVELS[j].lo <= n
            /\ n <= SYSTEM_PROMPT_RISK_LEVELS[j].hi}}

\* C7: for every score in 0..100 the level the system instruction states for
\* it is the risk_level parse_gemini_output assigns.
C7_PromptBandsMatchAssembler ==
    Returned => PromptLevels(ret.value.risk_score) = {ret.value.risk_level}

(***************************************************************************)
(* The service: src/app.py analyze_change_risk, one handler per request,   *)
(* each running agent_executor.invoke on a worker thread.                  *)
(***************************************************************************)
Requests == {"r1", "r2"}

NoException == "no exception"

\* the requests sent to the service: CHG-001 untested, without rollback plan,
\* with an outage and four teams; CHG-002 tested, with a plan, one team
ServiceRequests ==
    { c \in ChangeRequest({"CHG-001", "CHG-002"}, {1, 4}) :
        /\ (c.change_id = "CHG-001") = ~c.testing_completed
        /\ c.has_rollback_plan = c.testing_completed
        /\ c.service_outage_required = ~c.testing_completed
        /\ (c.teams_involved = 4) = ~c.testing_completed }

\* final answers the backend may give
FinalAnswers ==
    { TotalScore \o DecimalString(82) \o Slash100,
      RiskIs \o DecimalString(150) \o Slash100,
      RiskIs }

\* src/agent.py tools
tools ==
    <<"query_historical_changes", "check_configuration_items",
      "detect_conflicts", "calculate_risk_score">>

\* arguments the backend may pass to a tool
ToolArgs == {"db, api"}

\* the @tool functions: a canned report; two of them quote their argument
run_tool(name, arg) ==
    [kind |-> "report", tool |-> name,
     quoted |-> IF name \in {"check_configuration_items", "detect_conflicts"}
                THEN arg ELSE ""]

\* the f-string `query` of analyze_change_risk
render_query(c) ==
    [kind |-> "query",
     change_id |-> c.change_id,
     description |-> c.description,
     affected_systems |-> c.affected_systems,
     implementation_date |-> c.implementation_date,
     teams_involved |-> c.teams_involved,
     testing |-> IF c.testing_completed THEN "Completed" ELSE "Not Completed",
     rollback |-> IF c.has_rollback_plan THEN "Available" ELSE "Missing",
     outage |-> IF c.service_outage_required
                THEN <<"Required", c.outage_duration_minutes>>
                ELSE <<"Not Required", 0>>]

Message(role, content, calls) == [role |-> role, content |-> content, tool_calls |-> calls]

final_output_AnyRequest(r) ==
    LET q == CHOOSE x \in Requests :
                 /\ pc[x] = "invoke_returned"
                 /\ x = r => \A y \in Requests \ {r} : pc[y] # "invoke_returned"
    IN  messages[q][Len(messages[q])].content

\* output = result["messages"][-1].content
final_output(r) == messages[r][Len(messages[r])].content

HTTPException(status_code, detail) ==
    [kind |-> "HTTPException", status |-> status_code, detail |-> detail]

except_Exception_ClientError(e) == HTTPException(422, <<"Error: ", e>>)

\* except Exception as e: raise HTTPException(status_code=500, detail=f"Error: {str(e)}")
except_Exception(e) == HTTPException(500, <<"Error: ", e>>)

respond_PartialOnError(result) ==
    IF result.kind = "raise"
    THEN [kind |-> "RiskAssessment", status |-> 200,
          body |-> [risk_score |-> 50, risk_level |-> HIGH]]
    ELSE [kind |-> "RiskAssessment", status |-> 200, body |-> result.value]

\* what the handler sends for the outcome of its try block: the assessment
\* (response_model=RiskAssessment) or the HTTPException of the except clause
respond(result) ==
    IF result.kind = "raise"
    THEN except_Exception(result.exc)
    ELSE [kind |-> "RiskAssessment", status |-> 200, body |-> result.value]

Init ==
    /\ arg_output = <<>>
    /\ arg_change = None
    /\ call = "none"
    /\ ret = None
    /\ change = [r \in Requests |-> None]
    /\ pc = [r \in Requests |-> "idle"]
    /\ messages = [r \in Requests |-> <<>>]
    /\ rounds = [r \in Requests |-> 0]
    /\ exc = [r \in Requests |-> NoException]
    /\ response = [r \in Requests |-> None]

\* POST /api/analyze-change: the handler renders the query and hands
\* agent_executor.invoke to a worker thread
Receive(r, c) ==
    /\ pc[r] = "idle"
    /\ change' = [change EXCEPT ![r] = c]
    /\ messages' = [messages EXCEPT ![r] =
           << Message("system", [kind |-> "SYSTEM_PROMPT"], <<>>),
              Message("user", render_query(c), <<>>) >>]
    /\ pc' = [pc EXCEPT ![r] = "awaiting_model"]
    /\ UNCHANGED <<rounds, exc, response, pureVars>>

\* agent loop: the backend answers with a tool call.  The source passes no
\* round limit to create_react_agent or to invoke; MaxRounds only bounds the
\* histories explored here.
ModelCallsTool(r, name, arg) ==
    /\ pc[r] = "awaiting_model"
    /\ rounds[r] < MaxRounds
    /\ messages' = [messages EXCEPT ![r] =
           Append(@, Message("ai", [kind |-> "empty"], <<[name |-> name, args |-> arg]>>))]
    /\ rounds' = [rounds EXCEPT ![r] = @ + 1]
    /\ pc' = [pc EXCEPT ![r] = "executing_tools"]
    /\ UNCHANGED <<change, exc, response, pureVars>>

\* agent loop: the requested tool runs and its report joins the history
ExecuteTools(r) ==
    /\ pc[r] = "executing_tools"
    /\ LET tc == messages[r][Len(messages[r])].tool_calls[1]
       IN  messages' = [messages EXCEPT ![r] =
               Append(@, Message("tool", run_tool(tc.name, tc.args), <<>>))]
    /\ pc' = [pc EXCEPT ![r] = "awaiting_model"]
    /\ UNCHANGED <<change, rounds, exc, response, pureVars>>

\* agent loop: the backend gives its final answer and invoke returns
ModelAnswers(r, text) ==
    /\ pc[r] = "awaiting_model"
    /\ messages' = [messages EXCEPT ![r] =
           Append(@, Message("ai", [kind |-> "text", chars |-> text], <<>>))]
    /\ pc' = [pc EXCEPT ![r] = "invoke_returned"]
    /\ UNCHANGED <<change, rounds, exc, response, pureVars>>

\* agent loop: the call to the backend fails and invoke raises
BackendRaises(r) ==
    /\ pc[r] = "awaiting_model"
    /\ exc' = [exc EXCEPT ![r] = "BackendError"]
    /\ pc' = [pc EXCEPT ![r] = "invoke_raised"]
    /\ UNCHANGED <<change, messages, rounds, response, pureVars>>

\* the handler resumes after invoke returned: lines 79-84
ParseAndRespond(r) ==
    /\ pc[r] = "invoke_returned"
    /\ LET result == parse_gemini_output(final_output(r).chars, change[r])
       IN  /\ exc' = [exc EXCEPT ![r] =
                         IF result.kind = "raise" THEN result.exc ELSE NoException]
           /\ response' = [response EXCEPT ![r] = respond(result)]
    /\ pc' = [pc EXCEPT ![r] = "done"]
    /\ UNCHANGED <<change, messages, rounds, pureVars>>

\* the handler resumes after invoke raised: lines 83-84
RespondError(r) ==
    /\ pc[r] = "invoke_raised"
    /\ response' = [response EXCEPT ![r] = respond([kind |-> "raise", exc |-> exc[r]])]
    /\ pc' = [pc EXCEPT ![r] = "done"]
    /\ UNCHANGED <<change, messages, rounds, exc, pureVars>>

Next ==
    \E r \in Requests :
        \/ \E c \in ServiceRequests : Receive(r, c)
        \/ \E i \in 1..Len(tools), a \in ToolArgs : ModelCallsTool(r, tools[i], a)
        \/ ExecuteTools(r)
        \/ \E t \in FinalAnswers : ModelAnswers(r, t)
        \/ BackendRaises(r)
        \/ ParseAndRespond(r)
        \/ RespondError(r)

Spec == Init /\ [][Next]_vars

(***************************************************************************)
(* Claims about the service.                                               *)
(***************************************************************************)
AssessmentFields ==
    { "change_id", "risk_level", "risk_score", "risk_factors",
      "recommendations", "approval_required" }

IsCompleteAssessment(resp) ==
    /\ resp.kind = "RiskAssessment"
    /\ resp.status = 200
    /\ DOMAIN resp.body = AssessmentFields
    /\ resp.body.risk_score \in 0..100
    /\ resp.body.risk_level \in RiskLevel

IsErrorResponse(resp, e) ==
    /\ resp.kind = "HTTPException"
    /\ resp.detail = <<"Error: ", e>>
    /\ DOMAIN resp = {"kind", "status", "detail"}

\* the final answer the backend gave for request r's own history
OwnFinalAnswer(r) == messages[r][Len(messages[r])].content.chars

\* C6: a request ends in exactly one of two outcomes, a complete
\* RiskAssessment or one error response carrying the message; when anything
\* inside the try block raised, the outcome is the error response and no
\* assessment; nothing is sent before the end and what was sent stays.
C6_AssessmentOrSingleError ==
    /\ [](\A r \in Requests :
            /\ pc[r] # "done" => response[r] = None
            /\ pc[r] = "done" /\ exc[r] = NoException => IsCompleteAssessment(response[r])
            /\ pc[r] = "done" /\ exc[r] # NoException => IsErrorResponse(response[r], exc[r]))
    /\ [][\A r \in Requests :
            response[r] # None => response'[r] = response[r] /\ pc'[r] = "done"]_vars

\* C6 witness: one request ended in the error response after the backend
\* raised, another ended in a complete assessment.
C6_Witness ==
    \E r, q \in Requests :
        /\ pc[r] = "done" /\ exc[r] = "BackendError"
        /\ IsErrorResponse(response[r], "BackendError")
        /\ pc[q] = "done" /\ exc[q] = NoException /\ IsCompleteAssessment(response[q])

AnsweredOutOfRange(r) ==
    /\ pc[r] = "done"
    /\ exc[r] # "BackendError"
    /\ ScoreWritten(OwnFinalAnswer(r)) > 100

\* the final answers in request r's history: one per call of invoke
FinalAnswerCount(r) ==
    Cardinality({i \in 1..Len(messages[r]) :
        messages[r][i].role = "ai" /\ messages[r][i].content.kind = "text"})

\* C8 as stated: an out-of-range score in the final answer is surfaced to the
\* caller as a client-side (4xx) error.
C8_OutOfRangeIsClientError ==
    \A r \in Requests :
        AnsweredOutOfRange(r) => response[r].status \in 400..499

\* C8 amended: an out-of-range score in the final answer fails construction
\* of the RiskAssessment with a validation error, which the handler's except
\* clause surfaces as a server-side error (status 500) carrying the message;
\* the agent is not invoked again.
C8_OutOfRangeIsServerError ==
    \A r \in Requests :
        AnsweredOutOfRange(r) =>
            /\ exc[r] = "ValidationError"
            /\ IsErrorResponse(response[r], "ValidationError")
            /\ response[r].status = 500
            /\ FinalAnswerCount(r) = 1

\* C8 witness: a request whose final answer wrote 150/100 has been answered.
C8_Witness ==
    \E r \in Requests :
        /\ AnsweredOutOfRange(r)
        /\ ScoreWritten(OwnFinalAnswer(r)) = 150
        /\ response[r].kind = "HTTPException"

\* the response request r's own ChangeRequest and own final answer determine
OwnResponseHolds(r) ==
    LET n == ScoreWritten(OwnFinalAnswer(r))
        c == change[r]
        KeepRec(rec) == Applies(rec, c)
    IN  IF n > 100 THEN IsErrorResponse(response[r], "ValidationError")
        ELSE /\ IsCompleteAssessment(response[r])
             /\ response[r].body.change_id = c.change_id
             /\ response[r].body.risk_score = n
             /\ response[r].body.recommendations = SelectSeq(RecommendationOrder, KeepRec)
             /\ (response[r].body.risk_factors.testing_coverage = "adequate")
                    = c.testing_completed
             /\ (response[r].body.risk_factors.service_impact = "high")
                    = c.service_outage_required
             /\ (response[r].body.risk_factors.complexity = "moderate")
                    = (c.teams_involved >= 3)

\* C10: under every interleaving of the requests, each request's history
\* holds its own query and the reports of its own tool calls, and its
\* response is the one its own ChangeRequest and own final answer determine,
\* with its own change_id.
C10_RequestsAreIsolated ==
    \A r \in Requests :
        /\ pc[r] # "idle" =>
              /\ messages[r][2].content = render_query(change[r])
              /\ \A i \in 1..Len(messages[r]) :
                    messages[r][i].role = "tool" =>
                        /\ messages[r][i - 1].tool_calls # <<>>
                        /\ messages[r][i].content.tool = messages[r][i - 1].tool_calls[1].name
        /\ pc[r] = "done" /\ exc[r] # "BackendError" => OwnResponseHolds(r)

\* C10 witness: two requests with different change_ids and different final
\* answers have both been answered with an assessment.
C10_Witness ==
    \E r, q \in Requests :
        /\ pc[r] = "done" /\ pc[q] = "done"
        /\ change[r].change_id # change[q].change_id
        /\ IsCompleteAssessment(response[r]) /\ IsCompleteAssessment(response[q])
        /\ response[r].body.risk_score = 82 /\ response[q].body.risk_score = 50
        /\ rounds[r] > 0

====
